---- MODULE Spec2Model ----
(***************************************************************************)
(* Model of src/system/cups_lpadmin.py: one Ansible run of main() over a   *)
(* CUPSObject, against the CUPS subsystem reached only through             *)
(* module.run_command.  The subsystem is the environment: `cups` holds the *)
(* live destinations, and every lpadmin/lpstat/lpoptions/lpinfo call the   *)
(* code makes is appended to `log`.                                        *)
(***************************************************************************)
EXTENDS Integers, Sequences, FiniteSets, TLC

VARIABLES
    params,   \* module.params of the current declaration (immutable in a run)
    cups,     \* live state of the CUPS subsystem: name -> destination
    pc,       \* position of the run inside main() and the method it called
    log,      \* every command issued through module.run_command in this run
    rc,       \* the rc that main() will test to compute result['changed']
    todo,     \* loop state: names still to purge / members still to add
    result,   \* what exit_json / fail_json reported, NoResult while running
    run,      \* number of the current run (the same declaration is re-applied)
    prev,     \* summary of the previous run, for run-to-run properties
    verdict   \* what the run found the declared object to be: "none" before
              \* the comparison, then "absent", "matched" or "mismatched"

vars == <<params, cups, pc, log, rc, todo, result, run, prev, verdict>>

----------------------------------------------------------------------------
(* Bounds of the model *)

MaxRuns == 2

\* The longest declared URI, in characters
MaxUriLen == 3

----------------------------------------------------------------------------
(* Values *)

None == "None"

Names == {"p1", "p2", "c1"}

\* The header token that ends `members of class <name>:`
HeaderName(n) == CASE n = "c1" -> "c1:" [] n = "p1" -> "p1:" [] OTHER -> "p2:"

Range(s) == {s[i] : i \in 1..Len(s)}

Count(x, s) == Cardinality({i \in 1..Len(s) : s[i] = x})

\* sorted(a) == sorted(b): the two lists hold the same elements the same
\* number of times
SortedEqual(a, b) ==
    /\ Len(a) = Len(b)
    /\ \A x \in Range(a) \cup Range(b) : Count(x, a) = Count(x, b)

\* URIs are strings of characters; NoUri stands for None, which is not the
\* empty string <<>>
NoUri == <<"None">>
UriBare == <<"h">>
UriFull == <<"i", "p", "p", ":", "/", "/", "h">>
UriOther == <<"i", "p", "p", ":", "/", "/", "g">>
LpdPrefix == <<"l", "p", "d", ":", "/", "/">>

\* ':/' in uri
HasSchemeSeparator(u) ==
    \E i \in 1..(Len(u) - 1) : u[i] = ":" /\ u[i + 1] = "/"

IsSpace(c) == c = " "

RECURSIVE LStrip(_)
LStrip(u) == IF u # <<>> /\ IsSpace(Head(u)) THEN LStrip(Tail(u)) ELSE u

RECURSIVE RStrip(_)
RStrip(u) ==
    IF u # <<>> /\ IsSpace(u[Len(u)]) THEN RStrip(SubSeq(u, 1, Len(u) - 1)) ELSE u

\* strip_whitespace on a character string: text.strip() if text else None
strip_whitespace(u) == IF u = NoUri \/ u = <<>> THEN NoUri ELSE RStrip(LStrip(u))

\* strip_whitespace on a text kept as one atom: the empty text becomes None
strip_text(t) == IF t = None \/ t = "" THEN None ELSE t

\* __init__: use lpd if a protocol is not specified
NormalizeUriNoop(u) == u
NormalizeUri(u) ==
    IF u # NoUri /\ u # <<>> /\ ~HasSchemeSeparator(u)
    THEN LpdPrefix \o u \o <<"/">>
    ELSE u

----------------------------------------------------------------------------
(* CUPSObject.__init__: the object's fields, computed from module.params *)

self_name == strip_text(params.name)
self_uri == NormalizeUri(strip_whitespace(params.uri))
self_driver == strip_text(params.driver)
self_model == strip_text(params.model)
self_info == strip_text(params.info)
self_location == strip_text(params.location)
self_policy == strip_text(params.assign_cups_policy)

----------------------------------------------------------------------------
(* The CUPS subsystem, as the commands the code runs see it *)

NoOptions == [k \in {} |-> ""]

\* A name that is not a destination
Absent ==
    [exists |-> FALSE, is_class |-> FALSE, uri |-> NoUri, mam |-> "",
     location |-> "", shared |-> FALSE, info |-> "", enabled |-> FALSE,
     is_default |-> FALSE, members |-> <<>>, opts |-> NoOptions]

\* lpinfo -l -m: one block per driver, each a list of `key = value` lines
LpinfoOut ==
    << << <<"name", "m1">>, <<"natural_language", "en">>,
          <<"make-and-model", "MM1">>, <<"device-id", "id1">> >> >>

\* What CUPS reports as printer-make-and-model for a queue made with -m/-P
MakeAndModelOf(driver, model) ==
    IF driver = "ppd" THEN "MMppd"
    ELSE IF model = None \/ model = "raw" THEN "Remote Printer"
    ELSE IF model = "m1" THEN "MM1"
    ELSE ""

\* The driver-specific options a queue has: a raw queue has none
DefaultOpts(driver, model) ==
    IF driver = "model" /\ (model = None \/ model = "raw")
    THEN NoOptions
    ELSE [k \in {"PageSize"} |-> "Letter"]

\* lpstat -p <name>: rc; a name that no queue has (the text None of a run
\* without a name included) is an unknown destination
LpstatP(name) == IF name \in DOMAIN cups /\ cups[name].exists THEN 0 ELSE 1

\* lpstat -a: one line per destination, the name in the first column
EnumOrder == <<"c1", "p1", "p2">>
LpstatA ==
    LET F[i \in 0..Len(EnumOrder)] ==
            IF i = 0 THEN <<>>
            ELSE IF cups[EnumOrder[i]].exists
                 THEN Append(F[i - 1], <<EnumOrder[i], "accepting", "requests">>)
                 ELSE F[i - 1]
    IN  F[Len(EnumOrder)]

\* lpoptions -p <name>: the tokens of the output, <<key, value>> for
\* key=value and <<key>> for a bare key
LpoptionsOut(name) ==
    LET d == cups[name] IN
    IF ~d.exists THEN <<>>
    ELSE (IF d.is_class THEN <<>>
          ELSE << <<"device-uri", d.uri>>, <<"printer-make-and-model", d.mam>> >>)
         \o << <<"printer-info", d.info>>,
               <<"printer-is-shared", IF d.shared THEN "true" ELSE "false">>,
               <<"printer-location", d.location>> >>

\* lpstat -c <name>: [out, err], out as shell tokens
LpstatC(name) ==
    LET d == cups[name] IN
    IF d.exists /\ d.is_class
    THEN [out |-> <<"members", "of", "class", HeaderName(name)>> \o d.members,
          err |-> ""]
    ELSE [out |-> <<>>, err |-> "lpstat: Unknown destination"]

\* lpoptions -p <name> -l: one line NAME/Label: values, the current one starred
LpoptionsLOut(name) ==
    LET d == cups[name] IN
    IF ~d.exists THEN <<>>
    ELSE LET keys == DOMAIN d.opts IN
         IF keys = {} THEN <<>>
         ELSE << [name |-> "PageSize", label |-> "Page Size",
                  values |-> << [star |-> d.opts["PageSize"] = "Letter", v |-> "Letter"],
                                [star |-> d.opts["PageSize"] = "A4", v |-> "A4"] >>] >>

----------------------------------------------------------------------------
(* The readers of CUPSObject *)

\* exists(another_cups_object_to_check)
exists(name) == LpstatP(name) = 0

\* _printer_get_installed_drivers: name -> the block's fields
_printer_get_installed_drivers ==
    LET Field(block, k) ==
            LET i == CHOOSE j \in 1..Len(block) : block[j][1] = k IN block[i][2]
        names == {Field(LpinfoOut[i], "name") : i \in 1..Len(LpinfoOut)}
    IN  [n \in names |->
            LET i == CHOOSE j \in 1..Len(LpinfoOut) : Field(LpinfoOut[j], "name") = n
            IN  [make_and_model |-> Field(LpinfoOut[i], "make-and-model")]]

\* _printer_get_all_printers: first column of every line
AllPrintersButFirst ==
    [i \in 1..(Len(LpstatA) - 1) |-> LpstatA[i + 1][1]]
_printer_get_all_printers ==
    [i \in 1..Len(LpstatA) |-> LpstatA[i][1]]

\* cups_object_get_cups_options: key -> value, None for a bare key
cups_object_get_cups_options(name) ==
    LET out == LpoptionsOut(name)
        keys == {out[i][1] : i \in 1..Len(out)}
    IN  [k \in keys |->
            LET i == CHOOSE j \in 1..Len(out) :
                        out[j][1] = k /\ \A l \in (j + 1)..Len(out) : out[l][1] # k
            IN  IF Len(out[i]) = 1 THEN None ELSE out[i][2]]

\* class_get_current_members: [members, err]; temp = shlex.split(out)[1:]
class_get_current_members(name) ==
    LET r == LpstatC(name) IN
    [err |-> r.err,
     members |-> IF r.out = <<>> THEN <<>> ELSE Tail(r.out)]

\* printer_get_specific_options: name -> current value, None when none starred
printer_get_specific_options(name) ==
    LET out == LpoptionsLOut(name)
        Current(vals) ==
            IF \E i \in 1..Len(vals) : vals[i].star
            THEN vals[CHOOSE i \in 1..Len(vals) :
                        vals[i].star /\ \A j \in 1..(i - 1) : ~vals[j].star].v
            ELSE None
    IN  [k \in {out[i].name : i \in 1..Len(out)} |->
            Current(out[CHOOSE i \in 1..Len(out) : out[i].name = k].values)]

----------------------------------------------------------------------------
(* The comparators of CUPSObject *)

\* _printer_get_make_and_model: [fatal, value, cmds]
_printer_get_make_and_model ==
    IF self_driver = "model" /\ (self_model = None \/ self_model = "raw")
    THEN [fatal |-> FALSE, value |-> "Remote Printer", lookup |-> FALSE]
    ELSE IF self_driver # "model" /\ self_driver = "ppd"
    THEN [fatal |-> FALSE, value |-> None, lookup |-> FALSE]
    ELSE LET installed_drivers == _printer_get_installed_drivers IN
         IF self_model \in DOMAIN installed_drivers
         THEN [fatal |-> FALSE, value |-> installed_drivers[self_model].make_and_model,
               lookup |-> TRUE]
         ELSE [fatal |-> TRUE, value |-> None, lookup |-> TRUE]

\* The subset check both comparators make: every expected key is a live key
\* with an equal value
Satisfied(expected, live) ==
    \A k \in DOMAIN expected : k \in DOMAIN live /\ expected[k] = live[k]

\* printer_check_cups_options: [fatal, lookup, ok]
printer_check_cups_options ==
    LET mm == _printer_get_make_and_model
        expected_cups_options ==
            [k \in {"device-uri", "printer-make-and-model", "printer-location",
                    "printer-is-shared", "printer-info"} |->
                CASE k = "device-uri" -> self_uri
                  [] k = "printer-make-and-model" -> mm.value
                  [] k = "printer-location" -> self_location
                  [] k = "printer-is-shared" ->
                        IF params.shared THEN "true" ELSE "false"
                  [] k = "printer-info" ->
                        IF self_info # None THEN self_info ELSE self_name]
    IN  [fatal |-> mm.fatal,
         lookup |-> mm.lookup,
         ok |-> ~mm.fatal /\
                Satisfied(expected_cups_options,
                          cups_object_get_cups_options(self_name))]

\* class_get_current_members: if err
MembersQueryNeverFailed(err) == FALSE
MembersQueryFailed(err) == err # ""

\* class_check_cups_options: [fatal, ok]
class_check_cups_options ==
    LET expected_cups_options ==
            [k \in {"printer-location"} \cup
                   (IF self_info # None THEN {"printer-info"} ELSE {}) |->
                CASE k = "printer-location" -> self_location
                  [] k = "printer-info" -> self_info]
        options_status ==
            Satisfied(expected_cups_options,
                      cups_object_get_cups_options(self_name))
        cur == class_get_current_members(self_name)
        class_members_status == SortedEqual(params.class_members, cur.members)
    IN  [fatal |-> MembersQueryFailed(cur.err),
         ok |-> cur.err = "" /\ options_status /\ class_members_status]

\* printer_check_options
PrinterOptionsAlwaysSatisfied == TRUE
printer_check_options ==
    Satisfied(params.options, printer_get_specific_options(self_name))

----------------------------------------------------------------------------
(* The commands that change the subsystem, and what they do when they      *)
(* succeed.  A command that fails leaves the subsystem as it was.          *)

Outcomes == {"ok", "fail"}

Remove(x, s) == SelectSeq(s, LAMBDA y : y # x)

\* lpadmin -x <name>
AfterDelete(name) ==
    [n \in Names |->
        IF n = name THEN Absent
        ELSE IF cups[n].is_class
             THEN [cups[n] EXCEPT !.members = Remove(name, @)]
             ELSE cups[n]]

CanDelete(name) == cups[name].exists

SetDefault(c, name, flag) ==
    IF flag THEN [n \in Names |-> [c[n] EXCEPT !.is_default = (n = name /\ c[n].exists)]]
    ELSE c

\* lpadmin -p <name> -v <uri> [-E] -o printer-is-shared=.. [-m|-P ..]
\*         [-D info] [-L location] [-d name]
CanInstall ==
    /\ self_uri # NoUri
    /\ self_uri # <<>>
    /\ IF self_driver = "model"
       THEN self_model \in {None, "raw"} \cup DOMAIN _printer_get_installed_drivers
       ELSE self_model # None

AfterInstall ==
    SetDefault(
        [cups EXCEPT ![self_name] =
            [exists |-> TRUE, is_class |-> FALSE, uri |-> self_uri,
             mam |-> MakeAndModelOf(self_driver, self_model),
             location |-> IF self_location # None THEN self_location
                          ELSE cups[self_name].location,
             shared |-> params.shared,
             info |-> IF self_info # None THEN self_info
                      ELSE IF cups[self_name].exists THEN cups[self_name].info
                      ELSE self_name,
             enabled |-> params.enabled \/ cups[self_name].enabled,
             is_default |-> cups[self_name].is_default,
             members |-> <<>>,
             opts |-> DefaultOpts(self_driver, self_model)]],
        self_name, params.default)

\* lpadmin -p <name> -o key=value ... [-d name]: a queue is made when none is
\* there
UriNull == <<"f", ":", "/", "n">>
AfterOptions ==
    LET d == cups[self_name]
        base == IF d.exists THEN d
                ELSE [Absent EXCEPT !.exists = TRUE, !.uri = UriNull,
                                    !.info = self_name]
        set == [k \in DOMAIN base.opts |->
                    IF k \in DOMAIN params.options THEN params.options[k]
                    ELSE base.opts[k]]
    IN  SetDefault([cups EXCEPT ![self_name] = [base EXCEPT !.opts = set]],
                   self_name, params.default)

\* lpadmin -p <printer> -c <class>
AfterAddToClass(printer) ==
    LET c == cups[self_name]
        base == IF c.exists THEN c
                ELSE [Absent EXCEPT !.exists = TRUE, !.is_class = TRUE,
                                    !.info = self_name]
    IN  [cups EXCEPT ![self_name] =
            [base EXCEPT !.members =
                IF printer \in Range(@) THEN @ ELSE Append(@, printer)]]

CanAddToClass(printer) ==
    /\ cups[printer].exists
    /\ ~cups[printer].is_class
    /\ cups[self_name].exists => cups[self_name].is_class

\* lpadmin -p <class> [-E] -o printer-is-shared=.. [-D info] [-L location]
AfterClassAttributes ==
    [cups EXCEPT ![self_name] =
        [@ EXCEPT !.enabled = params.enabled \/ @,
                  !.shared = params.shared,
                  !.info = IF self_info # None THEN self_info ELSE @,
                  !.location = IF self_location # None THEN self_location ELSE @]]

----------------------------------------------------------------------------
(* The command lines, as logged *)

RcOk == "0"
RcFail == "1"

\* A query: lpstat, lpoptions, lpinfo
Qo(op, target, ok, out) ==
    [op |-> op, target |-> target, uri |-> NoUri, args |-> {}, ok |-> ok,
     out |-> out]
Q(op, target, ok) == Qo(op, target, ok, <<>>)

\* A command that changes the subsystem: lpadmin
M(op, target, uri, args, ok) ==
    [op |-> op, target |-> target, uri |-> uri, args |-> args, ok |-> ok,
     out |-> <<>>]

MutatingOps == {"delete", "install", "add", "classattr", "reassert", "options"}

Probe(name) == Q("lpstat -p", name, exists(name))

\* _cups_object_uninstall: ['lpadmin', '-x', name]
UninstallAsInstallCmd(name, ok) == M("install", name, NoUri, {}, ok)
UninstallCmd(name, ok) == M("delete", name, NoUri, {}, ok)

SharedArg == <<"printer-is-shared", IF params.shared THEN "true" ELSE "false">>

\* _printer_install: the arguments after -p name -v uri
PrinterInstallArgs ==
    (IF params.enabled THEN {<<"-E", "">>} ELSE {})
    \cup {SharedArg}
    \cup (IF self_driver = "model" /\ self_model # None THEN {<<"-m", self_model>>}
          ELSE IF self_driver = "ppd" THEN {<<"-P", self_model>>}
          ELSE {})
    \cup (IF self_info # None THEN {<<"-D", self_info>>} ELSE {})
    \cup (IF self_location # None THEN {<<"-L", self_location>>} ELSE {})
    \cup (IF params.default THEN {<<"-d", self_name>>} ELSE {})

NoSupplyArgs == {}
SupplyArgs ==
    {<<"cupsIPPSupplies", IF params.report_ipp_supply_levels THEN "true" ELSE "false">>,
     <<"cupsSNMPSupplies", IF params.report_snmp_supply_levels THEN "true" ELSE "false">>}

PolicyArgs ==
    IF self_policy # None THEN {<<"printer-op-policy", self_policy>>} ELSE {}

\* _printer_install_mandatory_options: the -o arguments; a limit of 0 stands
\* for a limit that is not given (both are false in `if self.job_kb_limit`)
PrinterMandatoryArgs ==
    SupplyArgs
    \cup (IF params.job_kb_limit # 0
          THEN {<<"job-k-limit", ToString(params.job_kb_limit)>>} ELSE {})
    \cup (IF params.job_page_limit # 0
          THEN {<<"job-page-limit", ToString(params.job_page_limit)>>} ELSE {})
    \cup (IF params.job_quota_limit # 0
          THEN {<<"job-quota-period", ToString(params.job_quota_limit)>>} ELSE {})
    \cup PolicyArgs

\* _class_install_mandatory_options: the -o arguments
ClassMandatoryArgs == SupplyArgs \cup PolicyArgs

\* _printer_install_options: the arguments after -p name
PrinterOptionsArgsNoDefault ==
    {<<k, params.options[k]>> : k \in DOMAIN params.options}
PrinterOptionsArgs ==
    {<<k, params.options[k]>> : k \in DOMAIN params.options}
    \cup (IF params.default THEN {<<"-d", self_name>>} ELSE {})

\* _class_install: the arguments of the command that sets the class up
ClassAttributeArgsWithModel ==
    {SharedArg} \cup (IF self_model # None THEN {<<"-m", self_model>>} ELSE {})
ClassAttributeArgs ==
    (IF params.enabled THEN {<<"-E", "">>} ELSE {})
    \cup {SharedArg}
    \cup (IF self_info # None THEN {<<"-D", self_info>>} ELSE {})
    \cup (IF self_location # None THEN {<<"-L", self_location>>} ELSE {})

----------------------------------------------------------------------------
(* Results *)

NoResult == [kind |-> "none", changed |-> FALSE, msg |-> <<>>]

\* module.exit_json(**result); a result without 'changed' reports no change
ExitJson(changed, msg) == [kind |-> "exit", changed |-> changed, msg |-> msg]

\* module.fail_json(msg=...)
FailJson(msg) == [kind |-> "fail", changed |-> FALSE, msg |-> msg]

----------------------------------------------------------------------------
(* main() and the methods it calls, one action per block of code between   *)
(* two commands that change the subsystem                                  *)

\* main: if result['purge'] and not module.check_mode
DoPurge == params.purge /\ ~params.check_mode

\* The point of main() where the declared state picks the method to call
AtDispatch == (pc = "main" /\ ~DoPurge) \/ pc = "dispatch"

Fail(msg, cmds) ==
    /\ result' = FailJson(msg)
    /\ log' = log \o cmds
    /\ pc' = "done"
    /\ UNCHANGED <<cups, rc, todo>>

\* _printer_purge_all_printers: if not all_printers
PurgeFindsNothing(all_printers) == all_printers = <<>>

\* main: cups_object_purge -> _printer_purge_all_printers, up to the loop
CupsObjectPurge ==
    /\ pc = "main"
    /\ DoPurge
    /\ LET all_printers == _printer_get_all_printers IN
       /\ log' = Append(log, Qo("lpstat -a", None, TRUE, LpstatA))
       /\ IF PurgeFindsNothing(all_printers)
          THEN /\ result' = ExitJson(FALSE, <<"No printers">>)
               /\ pc' = "done"
               /\ UNCHANGED todo
          ELSE /\ todo' = all_printers
               /\ pc' = "purge"
               /\ UNCHANGED result
    /\ UNCHANGED <<params, cups, rc, run, prev, verdict>>

\* _printer_purge_all_printers: one turn of the loop; after the last one,
\* main exits when no name is declared
PurgeUninstall ==
    /\ pc = "purge"
    /\ \E o \in Outcomes :
        LET printer == Head(todo)
            ok == o = "ok"
        IN  /\ ok => CanDelete(printer)
            /\ cups' = IF ok THEN AfterDelete(printer) ELSE cups
            /\ log' = Append(log, UninstallCmd(printer, ok))
            /\ rc' = IF ok THEN RcOk ELSE RcFail
            /\ todo' = Tail(todo)
            /\ IF Tail(todo) # <<>>
               THEN pc' = "purge" /\ UNCHANGED result
               ELSE IF self_name = None
               THEN /\ result' = ExitJson(TRUE, <<"All printers purged">>)
                    /\ pc' = "done"
               ELSE pc' = "dispatch" /\ UNCHANGED result
    /\ UNCHANGED <<params, run, prev, verdict>>

\* printer_install: if self.uri is None and not self.exists()
UriNeverMissing == FALSE
UriMissing == self_uri = NoUri /\ ~exists(self_name)

\* printer_install: the URI a new printer needs
PrinterInstallRequireUri ==
    /\ AtDispatch
    /\ params.state = "present"
    /\ params.printer_or_class = "printer"
    /\ IF UriMissing
       THEN Fail(<<"'URI' is required to install printer">>, <<Probe(self_name)>>)
       ELSE /\ log' = IF self_uri = NoUri THEN Append(log, Probe(self_name)) ELSE log
            /\ rc' = None
            /\ pc' = "pi_check"
            /\ UNCHANGED <<cups, todo, result>>
    /\ UNCHANGED <<params, run, prev, verdict>>

\* printer_install: if self.exists() and not self.printer_check_cups_options()
PrinterNeverUninstalled == FALSE
PrinterNeedsUninstall == exists(self_name) /\ ~printer_check_cups_options.ok

PrinterInstallCheck ==
    /\ pc = "pi_check"
    /\ IF ~exists(self_name)
       THEN /\ log' = Append(log, Probe(self_name))
            /\ pc' = "pi_install"
            /\ verdict' = "absent"
            /\ UNCHANGED <<cups, rc, todo, result>>
       ELSE LET chk == printer_check_cups_options
                lookup == IF chk.lookup THEN <<Q("lpinfo -l -m", None, TRUE)>> ELSE <<>>
                reads == <<Probe(self_name)>> \o lookup
            IN  IF chk.fatal
                THEN /\ Fail(<<"Unable to determine printer make and model", self_model>>,
                             reads)
                     /\ UNCHANGED verdict
                ELSE /\ verdict' = IF chk.ok THEN "matched" ELSE "mismatched"
                     /\ pc' = "pi_install"
                     /\ UNCHANGED <<todo, result>>
                     /\ IF ~PrinterNeedsUninstall
                        THEN /\ log' = log \o reads \o <<Q("lpoptions -p", self_name, TRUE)>>
                             /\ UNCHANGED <<cups, rc>>
                        ELSE \E o \in Outcomes :
                                LET ok == o = "ok" IN
                                /\ ok => CanDelete(self_name)
                                /\ cups' = IF ok THEN AfterDelete(self_name) ELSE cups
                                /\ log' = log \o reads
                                              \o <<Q("lpoptions -p", self_name, TRUE),
                                                   UninstallCmd(self_name, ok)>>
                                /\ rc' = IF ok THEN RcOk ELSE RcFail
    /\ UNCHANGED <<params, run, prev>>

\* printer_install: if not self.exists()
PrinterAlwaysInstalled == TRUE
PrinterNeedsInstall == ~exists(self_name)

\* printer_install: if not self.exists(): self._printer_install()
PrinterInstall ==
    /\ pc = "pi_install"
    /\ IF ~PrinterNeedsInstall
       THEN /\ log' = Append(log, Probe(self_name))
            /\ UNCHANGED <<cups, rc>>
       ELSE \E o \in Outcomes :
                LET ok == o = "ok" IN
                /\ ok => CanInstall
                /\ cups' = IF ok THEN AfterInstall ELSE cups
                /\ log' = log \o <<Probe(self_name),
                                   M("install", self_name, self_uri,
                                     PrinterInstallArgs, ok)>>
                /\ rc' = IF ok THEN RcOk ELSE RcFail
    /\ pc' = "pi_mand"
    /\ UNCHANGED <<params, todo, result, run, prev, verdict>>

\* _printer_install_mandatory_options, _class_install_mandatory_options:
\* if err
ReassertNeverFailed(o) == FALSE
ReassertFailed(o) == o = "fail"

\* printer_install: if self.exists(): self._printer_install_mandatory_options()
PrinterInstallMandatoryOptions ==
    /\ pc = "pi_mand"
    /\ IF exists(self_name) /\ PrinterMandatoryArgs # {}
       THEN \E o \in Outcomes :
                LET cmds == <<Probe(self_name),
                              M("reassert", self_name, NoUri, PrinterMandatoryArgs,
                                o = "ok")>>
                IN  IF ~ReassertFailed(o)
                    THEN /\ log' = log \o cmds
                         /\ pc' = "pi_opts"
                         /\ UNCHANGED <<cups, rc, todo, result>>
                    ELSE Fail(<<"Installing mandatory options for printer if defined.">>,
                              cmds)
       ELSE /\ log' = Append(log, Probe(self_name))
            /\ pc' = "pi_opts"
            /\ UNCHANGED <<cups, rc, todo, result>>
    /\ UNCHANGED <<params, run, prev, verdict>>

\* printer_install: if not self.printer_check_options():
\*                      self._printer_install_options()
PrinterInstallOptions ==
    /\ pc = "pi_opts"
    /\ IF printer_check_options
       THEN /\ log' = Append(log, Q("lpoptions -l", self_name, TRUE))
            /\ UNCHANGED <<cups, rc>>
       ELSE \E o \in Outcomes :
                LET ok == o = "ok" IN
                /\ cups' = IF ok THEN AfterOptions ELSE cups
                /\ log' = log \o <<Q("lpoptions -l", self_name, TRUE),
                                   M("options", self_name, NoUri,
                                     PrinterOptionsArgs, ok)>>
                /\ rc' = IF ok THEN RcOk ELSE RcFail
    /\ pc' = "exit"
    /\ UNCHANGED <<params, todo, result, run, prev, verdict>>

\* class_install: if not self.class_members
ClassMembersNeverMissing == FALSE
ClassMembersMissing == params.class_members = <<>>

\* class_install: an empty class cannot be created
ClassInstallRequireMembers ==
    /\ AtDispatch
    /\ params.state = "present"
    /\ params.printer_or_class = "class"
    /\ IF ClassMembersMissing
       THEN Fail(<<"Empty class cannot be created.">>, <<>>)
       ELSE /\ rc' = None
            /\ pc' = "ci_check"
            /\ UNCHANGED <<cups, log, todo, result>>
    /\ UNCHANGED <<params, run, prev, verdict>>

\* class_install: if self.exists() and not self.class_check_cups_options()
ClassNeverUninstalled == FALSE
ClassNeedsUninstall == exists(self_name) /\ ~class_check_cups_options.ok

ClassInstallCheck ==
    /\ pc = "ci_check"
    /\ IF ~exists(self_name)
       THEN /\ log' = Append(log, Probe(self_name))
            /\ pc' = "ci_install"
            /\ verdict' = "absent"
            /\ UNCHANGED <<cups, rc, todo, result>>
       ELSE LET chk == class_check_cups_options
                reads == <<Probe(self_name), Q("lpoptions -p", self_name, TRUE),
                           Qo("lpstat -c", self_name, LpstatC(self_name).err = "",
                              LpstatC(self_name).out)>>
            IN  IF chk.fatal
                THEN /\ Fail(<<"Error occurred while trying to 'lpstat' class",
                               self_name>>, reads)
                     /\ UNCHANGED verdict
                ELSE /\ verdict' = IF chk.ok THEN "matched" ELSE "mismatched"
                     /\ pc' = "ci_install"
                     /\ UNCHANGED <<todo, result>>
                     /\ IF ~ClassNeedsUninstall
                        THEN /\ log' = log \o reads
                             /\ UNCHANGED <<cups, rc>>
                        ELSE \E o \in Outcomes :
                                LET ok == o = "ok" IN
                                /\ ok => CanDelete(self_name)
                                /\ cups' = IF ok THEN AfterDelete(self_name) ELSE cups
                                /\ log' = log \o reads \o <<UninstallCmd(self_name, ok)>>
                                /\ rc' = IF ok THEN RcOk ELSE RcFail
    /\ UNCHANGED <<params, run, prev>>

\* class_install: if not self.exists(): self._class_install(), up to its loop
ClassInstall ==
    /\ pc = "ci_install"
    /\ log' = Append(log, Probe(self_name))
    /\ IF exists(self_name)
       THEN pc' = "ci_mand" /\ UNCHANGED <<rc, todo>>
       ELSE /\ rc' = None
            /\ todo' = params.class_members
            /\ pc' = IF params.class_members = <<>> THEN "ci_attr" ELSE "ci_add"
    /\ UNCHANGED <<params, cups, result, run, prev, verdict>>

\* _class_install: if self.exists(another_cups_object_to_check=printer)
MemberAlwaysExists(printer) == TRUE
MemberExists(printer) == exists(printer)

\* _class_install: one turn of the loop over self.class_members
ClassAddMember ==
    /\ pc = "ci_add"
    /\ LET printer == Head(todo) IN
       IF ~MemberExists(printer)
       THEN Fail(<<"Printer", printer, "doesn't exist and cannot be added to class",
                   self_name>>, <<Probe(printer)>>)
       ELSE \E o \in Outcomes :
                LET ok == o = "ok" IN
                /\ ok => CanAddToClass(printer)
                /\ cups' = IF ok THEN AfterAddToClass(printer) ELSE cups
                /\ log' = log \o <<Probe(printer),
                                   M("add", printer, NoUri, {<<"-c", self_name>>}, ok)>>
                /\ rc' = IF ok THEN RcOk ELSE RcFail
                /\ todo' = Tail(todo)
                /\ pc' = IF Tail(todo) = <<>> THEN "ci_attr" ELSE "ci_add"
                /\ UNCHANGED result
    /\ UNCHANGED <<params, run, prev, verdict>>

\* _class_install: if self.exists(): the command that sets the class up
ClassSetAttributes ==
    /\ pc = "ci_attr"
    /\ IF ~exists(self_name)
       THEN /\ log' = Append(log, Probe(self_name))
            /\ UNCHANGED <<cups, rc>>
       ELSE \E o \in Outcomes :
                LET ok == o = "ok" IN
                /\ cups' = IF ok THEN AfterClassAttributes ELSE cups
                /\ log' = log \o <<Probe(self_name),
                                   M("classattr", self_name, NoUri,
                                     ClassAttributeArgs, ok)>>
                /\ rc' = IF ok THEN RcOk ELSE RcFail
    /\ pc' = "ci_mand"
    /\ UNCHANGED <<params, todo, result, run, prev, verdict>>

\* class_install: if self.exists(): self._class_install_mandatory_options()
ClassInstallMandatoryOptions ==
    /\ pc = "ci_mand"
    /\ IF exists(self_name) /\ ClassMandatoryArgs # {}
       THEN \E o \in Outcomes :
                LET cmds == <<Probe(self_name),
                              M("reassert", self_name, NoUri, ClassMandatoryArgs,
                                o = "ok")>>
                IN  IF ~ReassertFailed(o)
                    THEN /\ log' = log \o cmds
                         /\ pc' = "exit"
                         /\ UNCHANGED <<cups, rc, todo, result>>
                    ELSE Fail(<<"Installing mandatory options for class if defined.">>,
                              cmds)
       ELSE /\ log' = Append(log, Probe(self_name))
            /\ pc' = "exit"
            /\ UNCHANGED <<cups, rc, todo, result>>
    /\ UNCHANGED <<params, run, prev, verdict>>

\* cups_object_uninstall: if self.exists()
ObjectAlwaysUninstalled == TRUE
ObjectNeedsUninstall == exists(self_name)

\* cups_object_uninstall: if self.exists(): self._cups_object_uninstall()
CupsObjectUninstall ==
    /\ AtDispatch
    /\ params.state = "absent"
    /\ IF ~ObjectNeedsUninstall
       THEN /\ log' = Append(log, Probe(self_name))
            /\ rc' = None
            /\ UNCHANGED cups
       ELSE \E o \in Outcomes :
                LET ok == o = "ok" IN
                /\ ok => CanDelete(self_name)
                /\ cups' = IF ok THEN AfterDelete(self_name) ELSE cups
                /\ log' = log \o <<Probe(self_name), UninstallCmd(self_name, ok)>>
                /\ rc' = IF ok THEN RcOk ELSE RcFail
    /\ pc' = "exit"
    /\ UNCHANGED <<params, todo, result, run, prev, verdict>>

\* main: result['changed'] = False if rc is None else True
Changed(r) == r # None

\* main: exit_json(**result)
MainExit ==
    /\ pc = "exit"
    /\ result' = ExitJson(Changed(rc), <<>>)
    /\ pc' = "done"
    /\ UNCHANGED <<params, cups, log, rc, todo, run, prev, verdict>>

\* Every command of the run that changes the subsystem succeeded
AllSucceeded(l) == \A i \in 1..Len(l) : l[i].op \in MutatingOps => l[i].ok

\* The same task is applied again: a new run of main() with the same
\* module.params against the subsystem as the last run left it
Rerun ==
    /\ pc = "done"
    /\ run < MaxRuns
    /\ run' = run + 1
    /\ prev' = [result |-> result, succeeded |-> AllSucceeded(log)]
    /\ pc' = "main"
    /\ log' = <<>>
    /\ rc' = None
    /\ todo' = <<>>
    /\ result' = NoResult
    /\ verdict' = "none"
    /\ UNCHANGED <<params, cups>>

----------------------------------------------------------------------------
(* The declarations and the live states the runs start from *)

\* argument_spec of main(): the defaults
Defaults ==
    [state |-> "present", driver |-> "model", purge |-> FALSE, name |-> None,
     printer_or_class |-> "printer", uri |-> NoUri, enabled |-> TRUE,
     shared |-> FALSE, default |-> FALSE, model |-> None, info |-> None,
     location |-> None, assign_cups_policy |-> None, class_members |-> <<>>,
     report_ipp_supply_levels |-> TRUE, report_snmp_supply_levels |-> TRUE,
     job_kb_limit |-> 0, job_quota_limit |-> 0, job_page_limit |-> 0,
     options |-> NoOptions, check_mode |-> FALSE]

PageSizeA4 == [k \in {"PageSize"} |-> "A4"]

PrinterDeclarations ==
    {[Defaults EXCEPT !.name = "p1", !.purge = x[1], !.uri = x[2],
                      !.location = x[3], !.model = x[4], !.options = x[5]] :
        x \in BOOLEAN \X {NoUri, UriBare, UriFull} \X {None, "l1"}
              \X {None, "m1"} \X {NoOptions, PageSizeA4}}

\* driver=ppd: model names the PPD file
PpdDeclarations ==
    {[Defaults EXCEPT !.name = "p1", !.driver = "ppd", !.model = "f.ppd",
                      !.uri = UriFull, !.location = x] : x \in {None, "l1"}}

\* A model that lpinfo does not list
UnresolvedDeclarations ==
    {[Defaults EXCEPT !.name = "p1", !.model = "m2", !.uri = x[1], !.purge = x[2]] :
        x \in {NoUri, UriFull} \X BOOLEAN}

\* Job limits and an access policy
LimitDeclarations ==
    {[Defaults EXCEPT !.name = "p1", !.uri = UriFull, !.location = "l1",
                      !.job_kb_limit = x[1], !.job_page_limit = x[1],
                      !.job_quota_limit = x[1], !.assign_cups_policy = x[2],
                      !.report_ipp_supply_levels = x[3]] :
        x \in {0, 5} \X {None, "authenticated"} \X BOOLEAN}

\* The enabled and default flags, with and without options
FlagDeclarations ==
    {[Defaults EXCEPT !.name = "p1", !.uri = UriFull, !.location = "l1",
                      !.enabled = x[1], !.default = x[2], !.options = x[3]] :
        x \in BOOLEAN \X BOOLEAN \X {NoOptions, PageSizeA4}}

ClassDeclarations ==
    {[Defaults EXCEPT !.name = "c1", !.printer_or_class = "class",
                      !.purge = x[1], !.class_members = x[2], !.location = x[3]] :
        x \in BOOLEAN \X {<<>>, <<"p1">>, <<"p2", "p1">>} \X {None, "l1"}}

AbsentDeclarations ==
    {[Defaults EXCEPT !.state = "absent", !.name = x[1][1],
                      !.printer_or_class = x[1][2], !.purge = x[2]] :
        x \in {<<"p1", "printer">>, <<"c1", "class">>} \X BOOLEAN}

\* required_one_of = [['name', 'purge']]: purge alone
PurgeDeclarations == {[Defaults EXCEPT !.purge = TRUE]}

\* A live printer queue
LivePrinter(name, uri, model, location, opt) ==
    [exists |-> TRUE, is_class |-> FALSE, uri |-> uri,
     mam |-> MakeAndModelOf("model", model), location |-> location,
     shared |-> FALSE, info |-> name, enabled |-> TRUE, is_default |-> FALSE,
     members |-> <<>>,
     opts |-> [k \in DOMAIN DefaultOpts("model", model) |-> opt]]

\* A live class
LiveClass(name, members, location) ==
    [exists |-> TRUE, is_class |-> TRUE, uri |-> NoUri, mam |-> "",
     location |-> location, shared |-> FALSE, info |-> name, enabled |-> TRUE,
     is_default |-> FALSE, members |-> members, opts |-> NoOptions]

LiveP1 ==
    {Absent} \cup
    {LivePrinter("p1", x[1], x[2], x[3], x[4]) :
        x \in {NormalizeUri(UriBare), UriFull} \X {None, "m1"} \X {"l1", "l2"}
              \X {"Letter", "A4"}}

LiveP2 == {Absent, LivePrinter("p2", UriOther, None, "", "Letter")}

LiveC1 ==
    {Absent} \cup
    {LiveClass("c1", x[1], x[2]) :
        x \in {<<"p1">>, <<"p2">>, <<"p1", "p2">>} \X {"l1", "l2"}}

\* A printer queue that has the name the class is declared with
LiveNotClass == {LivePrinter("c1", UriOther, None, "l1", "Letter")}

\* The members of a live class are live printers
WellFormed(c) ==
    \A n \in Names : \A m \in Range(c[n].members) : c[m].exists /\ ~c[m].is_class

LiveStatesOf(P1, P2, C1) ==
    {c \in {[n \in Names |-> IF n = "p1" THEN x[1] ELSE IF n = "p2" THEN x[2] ELSE x[3]] :
                x \in P1 \X P2 \X C1} : WellFormed(c)}

InitRun ==
    /\ pc = "main"
    /\ log = <<>>
    /\ rc = None
    /\ todo = <<>>
    /\ result = NoResult
    /\ run = 1
    /\ prev = [result |-> NoResult, succeeded |-> TRUE]
    /\ verdict = "none"

Init ==
    /\ InitRun
    /\ \/ /\ params \in PrinterDeclarations \cup PpdDeclarations
                        \cup UnresolvedDeclarations \cup LimitDeclarations
                        \cup FlagDeclarations
          /\ cups \in LiveStatesOf(LiveP1, LiveP2, {Absent})
       \/ /\ params \in ClassDeclarations \cup AbsentDeclarations \cup PurgeDeclarations
          /\ cups \in LiveStatesOf({Absent, LivePrinter("p1", UriFull, None, "l1", "Letter")},
                                   LiveP2, LiveC1 \cup LiveNotClass)

Next ==
    \/ CupsObjectPurge
    \/ PurgeUninstall
    \/ PrinterInstallRequireUri
    \/ PrinterInstallCheck
    \/ PrinterInstall
    \/ PrinterInstallMandatoryOptions
    \/ PrinterInstallOptions
    \/ ClassInstallRequireMembers
    \/ ClassInstallCheck
    \/ ClassInstall
    \/ ClassAddMember
    \/ ClassSetAttributes
    \/ ClassInstallMandatoryOptions
    \/ CupsObjectUninstall
    \/ MainExit
    \/ Rerun

Spec == Init /\ [][Next]_vars

----------------------------------------------------------------------------
(* Two runs of a class declaration from the same live state, the second    *)
(* with other values for uri, driver and model                             *)

\* The values of uri, driver and model the second run is given
TwinAlternatives ==
    {<<NoUri, "model", None>>, <<UriFull, "model", "m2">>, <<UriBare, "ppd", "f.ppd">>}

InitTwin ==
    /\ pc = "main"
    /\ log = <<>>
    /\ rc = None
    /\ todo = <<>>
    /\ result = NoResult
    /\ run = 1
    /\ verdict = "none"
    /\ params \in {d \in ClassDeclarations \cup AbsentDeclarations :
                        d.printer_or_class = "class"}
    /\ cups \in LiveStatesOf({Absent, LivePrinter("p1", UriFull, None, "l1", "Letter")},
                             LiveP2, LiveC1 \cup LiveNotClass)
    /\ prev = [result |-> NoResult, succeeded |-> TRUE, log |-> <<>>, cups |-> cups]

\* main() is run again from the live state the last run started from, with
\* a declaration that differs in uri, driver and model only
RerunTwin ==
    /\ pc = "done"
    /\ run < MaxRuns
    /\ run' = run + 1
    /\ \E x \in TwinAlternatives :
            params' = [params EXCEPT !.uri = x[1], !.driver = x[2], !.model = x[3]]
    /\ cups' = prev.cups
    /\ prev' = [result |-> result, succeeded |-> AllSucceeded(log), log |-> log,
                cups |-> prev.cups]
    /\ pc' = "main"
    /\ log' = <<>>
    /\ rc' = None
    /\ todo' = <<>>
    /\ result' = NoResult
    /\ verdict' = "none"

NextTwin ==
    \/ CupsObjectPurge
    \/ PurgeUninstall
    \/ ClassInstallRequireMembers
    \/ ClassInstallCheck
    \/ ClassInstall
    \/ ClassAddMember
    \/ ClassSetAttributes
    \/ ClassInstallMandatoryOptions
    \/ CupsObjectUninstall
    \/ MainExit
    \/ RerunTwin

SpecTwin == InitTwin /\ [][NextTwin]_vars

----------------------------------------------------------------------------
(* One state=present printer run for every declared URI text *)

UriAlphabet == {"h", ":", "/", " "}

\* module.params['uri']: not given, or any text up to MaxUriLen characters
UriInputs == {NoUri} \cup UNION {[1..n -> UriAlphabet] : n \in 0..MaxUriLen}

InitUri ==
    /\ InitRun
    /\ params \in {[Defaults EXCEPT !.name = "p1", !.uri = u] : u \in UriInputs}
    /\ cups \in LiveStatesOf({Absent,
                              LivePrinter("p1", NormalizeUri(UriBare), None, "", "Letter")},
                             {Absent}, {Absent})

NextUri ==
    \/ PrinterInstallRequireUri
    \/ PrinterInstallCheck
    \/ PrinterInstall
    \/ PrinterInstallMandatoryOptions
    \/ PrinterInstallOptions
    \/ MainExit

SpecUri == InitUri /\ [][NextUri]_vars

----------------------------------------------------------------------------
(* Runs made in check mode and runs made normally, from the same           *)
(* declarations and live states                                            *)

\* main: AnsibleModule(..., supports_check_mode=True)
supports_check_mode == TRUE

\* Ansible only hands check mode to a module that declares its support
CheckModes == {FALSE} \cup (IF supports_check_mode THEN {TRUE} ELSE {})

CheckModeOf(D) == {[d EXCEPT !.check_mode = m] : d \in D, m \in CheckModes}

InitCheck ==
    /\ InitRun
    /\ \/ /\ params \in CheckModeOf(PrinterDeclarations \cup PpdDeclarations
                                    \cup UnresolvedDeclarations
                                    \cup FlagDeclarations)
          /\ cups \in LiveStatesOf(LiveP1, LiveP2, {Absent})
       \/ /\ params \in CheckModeOf(ClassDeclarations \cup AbsentDeclarations
                                    \cup PurgeDeclarations)
          /\ cups \in LiveStatesOf({Absent, LivePrinter("p1", UriFull, None, "l1", "Letter")},
                                   LiveP2, LiveC1 \cup LiveNotClass)

SpecCheck == InitCheck /\ [][Next]_vars

----------------------------------------------------------------------------
(* What a run's log shows *)

Mutating(l) == SelectSeq(l, LAMBDA e : e.op \in MutatingOps)

OpsOf(l) == [i \in 1..Len(l) |-> l[i].op]

Only(l, ops) == SelectSeq(l, LAMBDA e : e.op \in ops)

\* The length of the purge at the head of the log: the enumeration and the
\* deletes that follow it
PurgeLen(l) ==
    IF l = <<>> \/ l[1].op # "lpstat -a" THEN 0
    ELSE CHOOSE k \in 1..Len(l) :
            /\ \A i \in 2..k : l[i].op = "delete"
            /\ k < Len(l) => l[k + 1].op # "delete"

\* The commands issued for the declared object, after the purge
Body(l) == SubSeq(l, PurgeLen(l) + 1, Len(l))

PresentPrinterRun ==
    params.state = "present" /\ params.printer_or_class = "printer"

PresentClassRun ==
    params.state = "present" /\ params.printer_or_class = "class"

\* The run is over and the method main() dispatched to has returned or failed
Finished == pc = "done"

----------------------------------------------------------------------------
(* C1 *)

\* A declaration the module accepts for state=present: a name, and a URI for
\* a printer or members for a class; no purge
ValidPresentDeclaration ==
    /\ params.state = "present"
    /\ ~params.purge
    /\ self_name # None
    /\ params.printer_or_class = "printer" => self_uri # NoUri
    /\ params.printer_or_class = "class" => params.class_members # <<>>

\* This run re-applies the declaration of a run that ended normally with
\* every command succeeding, and its own commands succeeded too
SecondRunAfterSuccess ==
    /\ Finished
    /\ run >= 2
    /\ prev.result.kind = "exit"
    /\ prev.succeeded
    /\ AllSucceeded(log)

\* C1: idempotence. When a valid state=present declaration is applied a
\* second time to the subsystem as the first, fully successful, run left it,
\* the second run reports changed=false and issues no lpadmin command.
C1_Idempotence ==
    (ValidPresentDeclaration /\ SecondRunAfterSuccess) =>
        /\ result.kind = "exit"
        /\ ~result.changed
        /\ Mutating(log) = <<>>

----------------------------------------------------------------------------
(* C2 *)

\* The deletes and installs issued for the declared object
Rebuild == Only(Body(log), {"delete", "install"})

\* printer_install is past its delete and install steps
PrinterPastInstall ==
    PresentPrinterRun /\ pc \in {"pi_mand", "pi_opts", "exit", "done"}
    /\ verdict # "none"

\* C2 as stated: when the printer exists and the comparator finds a mismatch,
\* exactly one delete is issued, followed by exactly one install.
C2_DeleteThenInstall ==
    (PrinterPastInstall /\ verdict = "mismatched") =>
        OpsOf(Rebuild) = <<"delete", "install">>

\* C2, amended: on a mismatch exactly one delete of the printer is issued,
\* right after the comparison; exactly one install follows it when the delete
\* removed the printer, and none when the printer is still there.  A printer
\* found matched is neither deleted nor installed.
C2_DeleteBeforeInstall ==
    PrinterPastInstall =>
        /\ verdict = "mismatched" =>
            /\ Len(Rebuild) >= 1
            /\ Rebuild[1].op = "delete"
            /\ Rebuild[1].target = self_name
            /\ \E i \in 2..Len(Body(log)) :
                    /\ Body(log)[i] = Rebuild[1]
                    /\ Body(log)[i - 1].op = "lpoptions -p"
            /\ IF Rebuild[1].ok
               THEN OpsOf(Rebuild) = <<"delete", "install">>
                    /\ Rebuild[2].target = self_name
               ELSE OpsOf(Rebuild) = <<"delete">>
        /\ verdict = "matched" => Rebuild = <<>>
        /\ verdict = "absent" => OpsOf(Rebuild) = <<"install">>

C2_Witness ==
    /\ PrinterPastInstall
    /\ verdict = "mismatched"
    /\ OpsOf(Rebuild) = <<"delete", "install">>
    /\ Rebuild[2].ok

----------------------------------------------------------------------------
(* C3 *)

\* C3: a run that ends normally reports changed=true exactly when it issued
\* at least one lpadmin command.
C3_ChangedIffMutated ==
    (Finished /\ result.kind = "exit") =>
        (result.changed <=> Mutating(log) # <<>>)

----------------------------------------------------------------------------
(* C4 *)

\* cups_object_uninstall has returned
UninstallReturned ==
    params.state = "absent" /\ pc \in {"exit", "done"} /\ Body(log) # <<>>

\* C4: a state=absent run probes the declared name; it issues exactly one
\* delete, of that name, when the probe finds it, and no lpadmin command when
\* the probe does not; either way the run ends normally.
C4_AbsentVerb ==
    UninstallReturned =>
        LET b == Body(log) IN
        /\ b[1].op = "lpstat -p" /\ b[1].target = self_name
        /\ b[1].ok => /\ Len(b) = 2
                      /\ b[2].op = "delete"
                      /\ b[2].target = self_name
        /\ ~b[1].ok => Len(b) = 1
        /\ Finished => result.kind = "exit"

C4_Witness ==
    /\ UninstallReturned
    /\ Finished
    /\ Len(Body(log)) = 2
    /\ Body(log)[2].op = "delete"
    /\ Body(log)[2].ok

----------------------------------------------------------------------------
(* C5 *)

\* The names lpstat -a listed, when the run purged
Enumerated == [i \in 1..Len(log[1].out) |-> log[1].out[i][1]]

\* The purge is over: the run is past the loop of _printer_purge_all_printers
PurgeOver == DoPurge /\ pc \notin {"main", "purge"}

\* C5: a purge that enumerated N destinations issues exactly N deletes, one
\* per enumerated name in order, before any other command; when no name is
\* declared the run ends there.
C5_Purge ==
    PurgeOver =>
        LET N == Len(Enumerated) IN
        /\ log[1].op = "lpstat -a"
        /\ Len(log) >= N + 1
        /\ \A i \in 1..N : log[i + 1].op = "delete" /\ log[i + 1].target = Enumerated[i]
        /\ Len(log) > N + 1 => log[N + 2].op = "lpstat -p"
        /\ \A i \in (N + 2)..Len(log) :
                log[i].op = "delete" =>
                    \E j \in (N + 2)..(i - 1) : log[j].op = "lpstat -p"
        /\ self_name = None =>
                /\ Finished
                /\ Len(log) = N + 1
                /\ result.kind = "exit"

C5_Witness ==
    /\ PurgeOver
    /\ self_name = None
    /\ Len(Enumerated) = 3
    /\ Finished

----------------------------------------------------------------------------
(* C6 *)

\* C6: with purge and a declared name, the declaration is processed after
\* the purge however many destinations there were; a valid state=present
\* printer declaration whose commands all succeed ends with the printer
\* installed.
C6_DeclarationAfterPurge ==
    (/\ Finished
     /\ DoPurge
     /\ PresentPrinterRun
     /\ self_name # None
     /\ self_uri # NoUri
     /\ result.kind = "exit"
     /\ AllSucceeded(log)) =>
        /\ Body(log) # <<>>
        /\ cups[self_name].exists

----------------------------------------------------------------------------
(* C7 *)

EmptyClassRun == PresentClassRun /\ params.class_members = <<>>

\* The purge found nothing and ended the run before the declaration
EndedByEmptyPurge == Finished /\ result.msg = <<"No printers">>

\* C7: a state=present class declaration with no members is rejected with a
\* fatal error as soon as it is processed, and no command at all is issued
\* for it: no probe, no delete, no add-to-class.
C7_EmptyClassRejected ==
    EmptyClassRun =>
        /\ pc \in {"main", "purge", "dispatch", "done"}
        /\ Body(log) = <<>>
        /\ ~DoPurge => log = <<>>
        /\ (Finished /\ ~EndedByEmptyPurge) => result.kind = "fail"

C7_Witness ==
    /\ EmptyClassRun
    /\ Finished
    /\ result.kind = "fail"
    /\ cups[self_name].exists
    /\ log = <<>>

----------------------------------------------------------------------------
(* C8 *)

Adds == Only(Body(log), {"add"})

TargetsOf(l) == [i \in 1..Len(l) |-> l[i].target]

\* The run failed on a class member that does not exist
RejectedMember == Finished /\ result.kind = "fail" /\ result.msg[1] = "Printer"

\* C8 as stated: when a declared member does not exist, the fatal error is
\* raised before any add-to-class command has been issued for any member.
C8_NoAddBeforeRejection ==
    (PresentClassRun /\ RejectedMember) => Adds = <<>>

\* C8, amended: an add-to-class command is only ever issued for a member
\* whose existence probe, made just before it, succeeded.  When the loop
\* reaches a member that does not exist the run ends in a fatal error naming
\* it, with no add-to-class for it or for any member after it; the members
\* declared before it have already been added.
C8_MissingMemberRejected ==
    PresentClassRun =>
        LET b == Body(log) IN
        /\ \A i \in 1..Len(b) :
                b[i].op = "add" =>
                    /\ i > 1
                    /\ b[i - 1].op = "lpstat -p"
                    /\ b[i - 1].target = b[i].target
                    /\ b[i - 1].ok
        /\ pc = "ci_attr" => TargetsOf(Adds) = params.class_members
        /\ RejectedMember =>
                LET m == result.msg[2]
                    last == b[Len(b)]
                IN  /\ m \in Range(params.class_members)
                    /\ last.op = "lpstat -p" /\ last.target = m /\ ~last.ok
                    /\ \E k \in 1..Len(params.class_members) :
                            /\ params.class_members[k] = m
                            /\ TargetsOf(Adds) = SubSeq(params.class_members, 1, k - 1)

C8_Witness ==
    /\ PresentClassRun
    /\ RejectedMember
    /\ Adds # <<>>
    /\ Adds[1].ok

----------------------------------------------------------------------------
(* C9 *)

\* C9: a state=present printer run that declares no URI and whose probe
\* finds no such printer ends in a fatal error right after that probe: no
\* lpadmin command is issued for the printer.
C9_UriRequired ==
    (/\ PresentPrinterRun
     /\ self_uri = NoUri
     /\ Body(log) # <<>>
     /\ ~Body(log)[1].ok) =>
        /\ Finished
        /\ result.kind = "fail"
        /\ Len(Body(log)) = 1
        /\ Body(log)[1].op = "lpstat -p"

C9_Witness ==
    /\ PresentPrinterRun
    /\ self_uri = NoUri
    /\ Finished
    /\ result.kind = "fail"
    /\ Len(Body(log)) = 1
    /\ ~cups[self_name].exists

----------------------------------------------------------------------------
(* C10 *)

\* The run ended through main()'s last exit_json with every command it
\* issued having succeeded
EndedNormally ==
    Finished /\ result.kind = "exit" /\ result.msg = <<>> /\ AllSucceeded(log)

\* C10: after a state=present class run that ends normally with every command
\* succeeding, the class exists and its live members are exactly the declared
\* members.
C10_MembersFinal ==
    (PresentClassRun /\ EndedNormally) =>
        /\ cups[self_name].exists
        /\ cups[self_name].is_class
        /\ Range(cups[self_name].members) = Range(params.class_members)

\* The class was there with other members, and was rebuilt
C10_Witness ==
    /\ PresentClassRun
    /\ EndedNormally
    /\ run = 1
    /\ params.class_members = <<"p1">>
    /\ \E i \in 1..Len(log) :
            /\ log[i].op = "lpstat -c"
            /\ "p2" \in Range(log[i].out)
    /\ Range(cups[self_name].members) = {"p1"}

----------------------------------------------------------------------------
(* C11 *)

\* C11: convergence. After a state=present printer run with a valid
\* declaration that ends normally with every command succeeding, a fresh
\* probe finds the printer and a fresh comparison of the same declaration
\* with the live state finds it matched.
C11_Convergence ==
    (PresentPrinterRun /\ ValidPresentDeclaration /\ EndedNormally) =>
        /\ exists(self_name)
        /\ printer_check_cups_options.ok

----------------------------------------------------------------------------
(* C12 *)

Reasserts == Only(Body(log), {"reassert"})

\* The run has just left the step that reasserts the uncheckable attributes
PastMandatory ==
    \/ PresentPrinterRun /\ pc = "pi_opts"
    \/ PresentClassRun /\ pc = "exit"

Flag(b) == IF b THEN "true" ELSE "false"

\* The -o arguments the reassert command of this declaration has to carry
DeclaredUncheckable ==
    {<<"cupsIPPSupplies", Flag(params.report_ipp_supply_levels)>>,
     <<"cupsSNMPSupplies", Flag(params.report_snmp_supply_levels)>>}
    \cup {<<"printer-op-policy", params.assign_cups_policy>> : x \in
            {y \in {1} : params.assign_cups_policy # None}}
    \cup {<<"job-k-limit", ToString(params.job_kb_limit)>> : x \in
            {y \in {1} : PresentPrinterRun /\ params.job_kb_limit > 0}}
    \cup {<<"job-page-limit", ToString(params.job_page_limit)>> : x \in
            {y \in {1} : PresentPrinterRun /\ params.job_page_limit > 0}}
    \cup {<<"job-quota-period", ToString(params.job_quota_limit)>> : x \in
            {y \in {1} : PresentPrinterRun /\ params.job_quota_limit > 0}}

\* C12: in every state=present run that reaches the reassert step, exactly
\* one reassert command is issued when the object exists at that step,
\* whether it was just installed or found matched, and none when it does not
\* exist; the command names the object and carries the supply-reporting
\* flags, the declared access policy and, for a printer, the declared job
\* limits and quota period.  No run issues more than one.
C12_ReassertEveryRun ==
    (PresentPrinterRun \/ PresentClassRun) =>
        /\ Len(Reasserts) <= 1
        /\ \A i \in 1..Len(Reasserts) :
                /\ Reasserts[i].target = self_name
                /\ Reasserts[i].args = DeclaredUncheckable
        /\ PastMandatory =>
                LET last == log[Len(log)] IN
                IF cups[self_name].exists
                THEN /\ Len(Reasserts) = 1
                     /\ last.op = "reassert"
                     /\ log[Len(log) - 1].op = "lpstat -p"
                     /\ log[Len(log) - 1].ok
                ELSE /\ Reasserts = <<>>
                     /\ last.op = "lpstat -p"
                     /\ ~last.ok

\* A printer found matched, with job limits and a policy declared, was
\* reasserted
C12_Witness ==
    /\ PresentPrinterRun
    /\ PastMandatory
    /\ verdict = "matched"
    /\ params.job_kb_limit > 0
    /\ params.assign_cups_policy # None
    /\ Len(Reasserts) = 1
    /\ Mutating(log) = Reasserts

----------------------------------------------------------------------------
(* C13 *)

\* The live printer agrees with the declaration in URI, location, shared
\* flag and info
LiveAgreesButModel ==
    LET d == cups[self_name] IN
    /\ d.exists
    /\ ~d.is_class
    /\ d.uri = self_uri
    /\ d.location = self_location
    /\ d.shared = params.shared
    /\ d.info = (IF self_info # None THEN self_info ELSE self_name)

\* C13: with driver=ppd the comparator does not look at the live
\* printer-make-and-model: a live printer whose URI, location, shared flag
\* and info match the declaration is reported matched and is not deleted.
C13_PpdSkipsMakeAndModel ==
    (/\ PresentPrinterRun
     /\ pc = "pi_check"
     /\ self_driver = "ppd"
     /\ LiveAgreesButModel) =>
        /\ printer_check_cups_options.ok
        /\ ~PrinterNeedsUninstall

----------------------------------------------------------------------------
(* C14 *)

\* The declaration names a catalog model that lpinfo does not list
UnresolvedDriver ==
    /\ self_driver = "model"
    /\ self_model \notin {None, "raw"}
    /\ \A i \in 1..Len(LpinfoOut) :
            \A j \in 1..Len(LpinfoOut[i]) :
                LpinfoOut[i][j][1] = "name" => LpinfoOut[i][j][2] # self_model

\* C14: a state=present printer run that declares a catalog model absent
\* from the installed drivers ends in a fatal error, and issues no lpadmin
\* command for the printer, whether or not the printer exists.
C14_UnresolvedDriverFatal ==
    (/\ PresentPrinterRun
     /\ UnresolvedDriver
     /\ Body(log) # <<>>) =>
        /\ Mutating(Body(log)) = <<>>
        /\ Finished => result.kind = "fail"

----------------------------------------------------------------------------
(* C15 *)

\* lpstat -c returned a non-empty error stream in this run
MembersQueryErred ==
    \E i \in 1..Len(Body(log)) :
        Body(log)[i].op = "lpstat -c" /\ ~Body(log)[i].ok

\* C15: when lpstat -c returns a non-empty error stream in a state=present
\* class run, the run ends there in a fatal error: no lpadmin command has
\* been issued for the declaration, no delete of the class and no
\* add-to-class in particular, and none follows.
C15_MembersQueryErrorFatal ==
    (PresentClassRun /\ MembersQueryErred) =>
        /\ Finished
        /\ result.kind = "fail"
        /\ result.msg[1] = "Error occurred while trying to 'lpstat' class"
        /\ log[Len(log)].op = "lpstat -c"
        /\ Mutating(Body(log)) = <<>>

C15_Witness ==
    /\ PresentClassRun
    /\ MembersQueryErred
    /\ Finished
    /\ result.kind = "fail"
    /\ cups[self_name].exists
    /\ params.class_members # <<>>

----------------------------------------------------------------------------
(* C16 *)

\* C16 as stated: no lpadmin command that fails (non-zero status, non-empty
\* stderr) ends the run in a fatal error, the reassert command included.
C16_NeverFatal ==
    [][\A i \in (Len(log) + 1)..Len(log') :
            (log'[i].op \in MutatingOps /\ ~log'[i].ok) =>
                result'.kind # "fail"]_vars

\* C16, amended: a delete, install, add-to-class, class-attribute or
\* options-set command that fails never ends the run in a fatal error: the
\* run goes on to its next step, or ends normally when that was its last
\* step.  The reassert command is the exception: when it fails with a
\* non-empty stderr the run ends at once in a fatal error.
C16_OnlyReassertFatal ==
    [][\A i \in (Len(log) + 1)..Len(log') :
            (log'[i].op \in MutatingOps /\ ~log'[i].ok) =>
                IF log'[i].op = "reassert"
                THEN result'.kind = "fail" /\ pc' = "done"
                ELSE /\ result'.kind # "fail"
                     /\ pc' = "done" => result'.kind = "exit"]_vars

\* A run whose install failed went on and ended normally
C16_Witness ==
    /\ Finished
    /\ result.kind = "exit"
    /\ result.msg = <<>>
    /\ \E i \in 1..Len(log) : log[i].op = "install" /\ ~log[i].ok

----------------------------------------------------------------------------
(* C17 *)

\* The live class agrees with the declaration in the options the class
\* comparator looks at
LiveClassOptionsAgree ==
    LET d == cups[self_name] IN
    /\ d.exists
    /\ d.is_class
    /\ d.location = self_location
    /\ self_info # None => d.info = self_info

\* C17: when the compared options agree, the class comparator reports
\* matched exactly when the declared members are the live members of the
\* class in some order (declared [B, A], live [A, B]), and mismatched when
\* the two multisets differ.
C17_MemberOrderInsensitive ==
    (PresentClassRun /\ pc = "ci_check" /\ LiveClassOptionsAgree) =>
        (class_check_cups_options.ok <=>
            SortedEqual(params.class_members, cups[self_name].members))

----------------------------------------------------------------------------
(* C18 *)

\* C18: from the output of lpstat -c, one header line `members of class X:`
\* followed by the member names, class_get_current_members returns exactly
\* the member names in order; no word of the header is returned as a member.
C18_MemberListParsing ==
    (/\ PresentClassRun
     /\ pc = "ci_check"
     /\ cups[self_name].exists
     /\ cups[self_name].is_class) =>
        class_get_current_members(self_name).members = cups[self_name].members

----------------------------------------------------------------------------
(* C19 *)

\* Every declared option is a live option of the printer with the declared
\* value as its current value
DeclaredOptionsLive ==
    \A k \in DOMAIN params.options :
        /\ cups[self_name].exists
        /\ k \in DOMAIN cups[self_name].opts
        /\ cups[self_name].opts[k] = params.options[k]

\* printer_install has made its options step
PastOptions == PresentPrinterRun /\ pc = "exit"

\* C19: the options check is satisfied if and only if every declared option
\* is a live option with exactly the declared current value: live options
\* the declaration does not mention never make it fail, and a declaration
\* without options always satisfies it.  The options command is issued
\* exactly when the check is not satisfied.
C19_OptionsSubsetCheck ==
    /\ (PresentPrinterRun /\ pc = "pi_opts") =>
            /\ printer_check_options <=> DeclaredOptionsLive
            /\ params.options = NoOptions => printer_check_options
    /\ PastOptions =>
            LET last == log[Len(log)] IN
            /\ last.op \in {"lpoptions -l", "options"}
            /\ last.op = "lpoptions -l" => DeclaredOptionsLive
            /\ (last.op = "options" /\ ~last.ok) => ~DeclaredOptionsLive
            /\ last.op = "options" => log[Len(log) - 1].op = "lpoptions -l"

\* A declaration without options, checked against a printer that has one:
\* no options command was issued
C19_Witness ==
    /\ PastOptions
    /\ params.options = NoOptions
    /\ cups[self_name].exists
    /\ DOMAIN cups[self_name].opts # {}
    /\ log[Len(log)].op = "lpoptions -l"

----------------------------------------------------------------------------
(* C20 *)

Min(a, b) == IF a <= b THEN a ELSE b

\* The two logs are the same up to their shorter length
SameSoFar(l1, l2) == \A i \in 1..Min(Len(l1), Len(l2)) : l1[i] = l2[i]

\* Where the two logs first differ, they hold the same lpadmin command and
\* differ only in whether it succeeded
SameCommands(l1, l2) ==
    \A i \in 1..Min(Len(l1), Len(l2)) :
        (\A j \in 1..(i - 1) : l1[j] = l2[j]) =>
            \/ l1[i] = l2[i]
            \/ /\ l1[i].op \in MutatingOps
               /\ [l1[i] EXCEPT !.ok = l2[i].ok] = l2[i]

\* C20: two class runs (state=present or absent) from the same live state,
\* whose declarations differ only in uri, driver and model, issue the same
\* commands in the same order as long as the commands have the same
\* outcomes, and then end with the same result.
C20_ClassIgnoresUriAndDriver ==
    run >= 2 =>
        /\ SameCommands(prev.log, log)
        /\ SameSoFar(prev.log, log) => Len(log) <= Len(prev.log)
        /\ (Finished /\ SameSoFar(prev.log, log)) =>
                /\ log = prev.log
                /\ result = prev.result

\* A class was built twice from the same live state, the second time with a
\* URI, driver=ppd and a model declared
C20_Witness ==
    /\ run = 2
    /\ Finished
    /\ PresentClassRun
    /\ params.uri # NoUri
    /\ params.driver = "ppd"
    /\ result.kind = "exit"
    /\ log = prev.log
    /\ \E i \in 1..Len(log) : log[i].op = "classattr" /\ log[i].ok

----------------------------------------------------------------------------
(* C21 *)

\* The declared text without the blanks around it
Trimmed(u) ==
    LET solid == {i \in 1..Len(u) : u[i] # " "} IN
    IF solid = {} THEN <<>>
    ELSE SubSeq(u, CHOOSE i \in solid : \A j \in solid : i <= j,
                   CHOOSE i \in solid : \A j \in solid : i >= j)

Lpd(v) == <<"l", "p", "d", ":", "/", "/">> \o v \o <<"/">>

\* The URI of every install command of the log
InstallUris == {log[i].uri : i \in {j \in 1..Len(log) : log[j].op = "install"}}

\* C21 as stated: a declared URI without a scheme separator becomes
\* lpd://<declared>/, one with a scheme separator is used as declared, and
\* normalizing the result again changes nothing.
C21_NormalizesDeclared ==
    (PresentPrinterRun /\ params.uri \notin {NoUri, <<>>}) =>
        /\ self_uri = (IF HasSchemeSeparator(params.uri) THEN params.uri
                       ELSE Lpd(params.uri))
        /\ NormalizeUri(self_uri) = self_uri

\* C21, amended: the declared URI is first trimmed of the blanks around it.
\* A trimmed URI that is not empty and holds no ':/' becomes
\* lpd://<trimmed>/; one that holds ':/' is used as trimmed; a URI of blanks
\* only stays empty, and an empty or undeclared one stays undeclared.
\* Normalizing the result again changes nothing, and every install command
\* carries the normalized URI.
C21_UriNormalization ==
    PresentPrinterRun =>
        LET u == params.uri
            t == IF u = NoUri THEN <<>> ELSE Trimmed(u)
            expected == IF u = NoUri \/ u = <<>> THEN NoUri
                        ELSE IF t = <<>> THEN <<>>
                        ELSE IF HasSchemeSeparator(t) THEN t
                        ELSE Lpd(t)
        IN  /\ self_uri = expected
            /\ NormalizeUri(self_uri) = self_uri
            /\ InstallUris \subseteq {expected}

\* A bare host, declared with a blank before it, was installed as an lpd URI
C21_Witness ==
    /\ PresentPrinterRun
    /\ Finished
    /\ params.uri = <<" ", "h">>
    /\ \E i \in 1..Len(log) :
            /\ log[i].op = "install"
            /\ log[i].ok
            /\ log[i].uri = <<"l", "p", "d", ":", "/", "/", "h", "/">>

----------------------------------------------------------------------------
(* C22 *)

\* The commands that install the declared object: the install of a printer,
\* the add-to-class and class-attribute commands of a class
InstallOps == {"install", "add", "classattr"}

\* C22: in a state=present run every command that installs the declared
\* object comes after a probe of the object that found it absent, made after
\* the last delete; when the delete leaves the object in place, no such
\* command is issued in that run.
C22_ReprobedBeforeInstall ==
    (PresentPrinterRun \/ PresentClassRun) =>
        LET b == Body(log) IN
        \A i \in 1..Len(b) :
            b[i].op \in InstallOps =>
                /\ \E k \in 1..(i - 1) :
                        /\ b[k].op = "lpstat -p"
                        /\ b[k].target = self_name
                        /\ ~b[k].ok
                        /\ \A j \in k..i : b[j].op # "delete"
                /\ \A j \in 1..(i - 1) : b[j].op = "delete" => b[j].ok
                /\ b[i].op = "install" =>
                        b[i - 1].op = "lpstat -p" /\ b[i - 1].target = self_name

\* The delete of a mismatched printer failed: the run ended without an
\* install
C22_Witness ==
    /\ PresentPrinterRun
    /\ Finished
    /\ result.kind = "exit"
    /\ verdict = "mismatched"
    /\ \E i \in 1..Len(log) : log[i].op = "delete" /\ ~log[i].ok
    /\ \A i \in 1..Len(log) : log[i].op # "install"

----------------------------------------------------------------------------
(* C23 *)

\* The place of a command in the order printer_install issues them
Rank(op) ==
    CASE op = "delete" -> 1
      [] op = "install" -> 2
      [] op = "reassert" -> 3
      [] op = "options" -> 4
      [] OTHER -> 0

\* C23: the lpadmin commands a state=present printer run issues for the
\* printer are, in this order and each at most once, a delete, an install,
\* a reassert and an options-set; a delete never follows an install.
C23_PrinterCommandOrder ==
    PresentPrinterRun =>
        LET ops == OpsOf(Mutating(Body(log))) IN
        /\ \A i \in 1..Len(ops) : Rank(ops[i]) > 0
        /\ \A i \in 1..Len(ops) : \A j \in (i + 1)..Len(ops) :
                Rank(ops[i]) < Rank(ops[j])

\* A run that issued all four
C23_Witness ==
    /\ PresentPrinterRun
    /\ Finished
    /\ OpsOf(Mutating(Body(log))) = <<"delete", "install", "reassert", "options">>
    /\ AllSucceeded(log)

----------------------------------------------------------------------------
(* C24 *)

\* _class_install has gone through all the declared members
ClassMembersAdded ==
    /\ PresentClassRun
    /\ pc \in {"ci_mand", "exit", "done"}
    /\ Adds # <<>>
    /\ ~RejectedMember

\* The commands that build the class
ClassBuild == Only(Body(log), {"add", "classattr", "reassert"})

\* C24: when a class is installed and every declared member exists, one
\* add-to-class command per declared member is issued, in declared order,
\* each right after the successful probe of that member; when the class
\* exists after them, exactly one class-attribute command follows the last
\* add-to-class, and the reassert command comes after it.
C24_ClassCommandOrder ==
    ClassMembersAdded =>
        LET b == Body(log)
            n == Len(params.class_members)
            made == \E i \in 1..Len(Adds) : Adds[i].ok
            attr == IF made THEN <<"classattr">> ELSE <<>>
            reas == IF made /\ pc \in {"exit", "done"} THEN <<"reassert">> ELSE <<>>
        IN  /\ TargetsOf(Adds) = params.class_members
            /\ \A i \in 1..Len(b) :
                    b[i].op = "add" =>
                        /\ b[i - 1].op = "lpstat -p"
                        /\ b[i - 1].target = b[i].target
                        /\ b[i - 1].ok
            /\ OpsOf(ClassBuild) = [i \in 1..n |-> "add"] \o attr \o reas
            /\ made <=> cups[self_name].exists
            /\ \A i \in 1..Len(ClassBuild) :
                    ClassBuild[i].op # "add" => ClassBuild[i].target = self_name

\* A class of two members was built
C24_Witness ==
    /\ ClassMembersAdded
    /\ Finished
    /\ params.class_members = <<"p2", "p1">>
    /\ OpsOf(ClassBuild) = <<"add", "add", "classattr", "reassert">>
    /\ AllSucceeded(log)

----------------------------------------------------------------------------
(* C25 *)

\* The places of the log where the probe of a declared member failed
FailedMemberProbes ==
    {i \in 1..Len(Body(log)) :
        /\ Body(log)[i].op = "lpstat -p"
        /\ Body(log)[i].target # self_name
        /\ ~Body(log)[i].ok}

\* C25: when the installation of a class reaches a declared member whose
\* probe fails, the run ends there in a fatal error: the add-to-class
\* commands issued are exactly those of the members declared before it, in
\* order, and no add-to-class, class-attribute or reassert command follows.
C25_PartialApplication ==
    PresentClassRun =>
        \A i \in FailedMemberProbes :
            LET b == Body(log)
                m == b[i].target
            IN  /\ i = Len(b)
                /\ Finished
                /\ result.kind = "fail"
                /\ \E k \in 1..Len(params.class_members) :
                        /\ params.class_members[k] = m
                        /\ TargetsOf(Adds) = SubSeq(params.class_members, 1, k - 1)
                /\ Only(b, {"classattr", "reassert"}) = <<>>

\* The second declared member was missing: the first had been added and
\* the class is left with it
C25_Witness ==
    /\ PresentClassRun
    /\ FailedMemberProbes # {}
    /\ params.class_members = <<"p2", "p1">>
    /\ TargetsOf(Adds) = <<"p2">>
    /\ cups[self_name].exists
    /\ cups[self_name].members = <<"p2">>

----------------------------------------------------------------------------
(* C26 *)

\* The arguments an options-set command of this declaration has to carry
DeclaredOptionArgs ==
    {<<k, params.options[k]>> : k \in DOMAIN params.options}
    \cup {<<"-d", params.name>> : x \in {y \in {1} : params.default}}

\* C26: the options step of a state=present printer run reads the live
\* options and issues exactly one options-set command, carrying every
\* declared key=value pair and the default designation when default is set,
\* when the declared options are not satisfied by what it read; it issues
\* none when they are satisfied, and so none when no option is declared.
C26_OptionsStep ==
    [][(PresentPrinterRun /\ pc = "pi_opts") =>
            LET new == SubSeq(log', Len(log) + 1, Len(log')) IN
            /\ Only(log, {"options"}) = <<>>
            /\ new[1].op = "lpoptions -l"
            /\ new[1].target = self_name
            /\ IF DeclaredOptionsLive
               THEN Len(new) = 1
               ELSE /\ Len(new) = 2
                    /\ new[2].op = "options"
                    /\ new[2].target = self_name
                    /\ new[2].args = DeclaredOptionArgs
                    /\ params.options # NoOptions]_vars

\* An options-set command with the default designation took effect
C26_Witness ==
    /\ PastOptions
    /\ params.default
    /\ log[Len(log)].op = "options"
    /\ log[Len(log)].ok
    /\ <<"-d", "p1">> \in log[Len(log)].args
    /\ cups[self_name].opts = PageSizeA4
    /\ cups[self_name].is_default

----------------------------------------------------------------------------
(* C27 *)

\* C27: every install command of a state=present printer run carries a
\* URI: none is issued with the URI missing, also when a printer declared
\* without a URI exists, is found mismatched and is deleted.
C27_InstallHasUri ==
    PresentPrinterRun =>
        \A i \in 1..Len(log) : log[i].op = "install" => log[i].uri # NoUri

----------------------------------------------------------------------------
(* C28 *)

\* C28: the reassert and options-set commands are only issued for a printer
\* that exists when they are issued: when the printer does not exist after
\* the install step, no options-set command is issued, whatever options are
\* declared.
C28_OnlyOnExistingPrinter ==
    [][PresentPrinterRun =>
            \A i \in (Len(log) + 1)..Len(log') :
                log'[i].op \in {"reassert", "options"} =>
                    cups[self_name].exists]_vars

----------------------------------------------------------------------------
(* C29 *)

\* C29: after a state=present printer run with a valid declaration in which
\* every command succeeds, the live printer is enabled when enabled is
\* declared and is the default destination when default is declared, also
\* when the printer was found matched with its options satisfied.
C29_FlagsConverge ==
    (PresentPrinterRun /\ ValidPresentDeclaration /\ EndedNormally) =>
        /\ cups[self_name].exists
        /\ params.enabled => cups[self_name].enabled
        /\ params.default => cups[self_name].is_default

----------------------------------------------------------------------------
(* C30 *)

\* The live printer agrees with the declaration in everything the printer
\* comparator looks at but the location
LiveAgreesButLocation ==
    LET d == cups[self_name] IN
    /\ d.exists
    /\ ~d.is_class
    /\ d.uri = self_uri
    /\ self_driver = "model"
    /\ self_model \in {None, "raw", "m1"}
    /\ d.mam = MakeAndModelOf(self_driver, self_model)
    /\ d.shared = params.shared
    /\ d.info = (IF self_info # None THEN self_info ELSE self_name)

\* C30: when no location is declared, the live printer-location does not
\* enter the comparison: a printer that agrees with the declaration in
\* everything else is reported matched, and is not deleted.
C30_UndeclaredLocationIgnored ==
    (/\ PresentPrinterRun
     /\ pc = "pi_check"
     /\ self_location = None
     /\ LiveAgreesButLocation) =>
        /\ printer_check_cups_options.ok
        /\ ~PrinterNeedsUninstall

----------------------------------------------------------------------------
(* C31 *)

\* C31: check mode is side-effect free: the module declares check-mode
\* support, and in a run made in check mode no mutating command (purge
\* delete, delete, install, add-to-class, class attributes, reassert,
\* options-set) is issued, whatever the verb and the kind.
C31_CheckModeSideEffectFree ==
    /\ supports_check_mode
    /\ params.check_mode => Mutating(log) = <<>>

====
